---- MODULE Spec2Model ----
(***************************************************************************)
(* A model of groups.c of libnss-sqlite3: the membership builder           *)
(* (get_users), the enumeration cursor (setgrent / getgrent_r / endgrent), *)
(* the point lookups (getgrnam_r / getgrgid_r) and the growable id array   *)
(* (initgroups_dyn).                                                       *)
(***************************************************************************)
EXTENDS Integers, Sequences, FiniteSets, TLC

(***************************************************************************)
(* Bounds of the model.                                                    *)
(***************************************************************************)
\* longest member list handed to get_users by the pure-function specification
MaxMembers == 2
\* longest member name, in characters (without the NUL)
MaxNameLen == 2
\* rows of the full-scan (setgrent) query
NumRows == 3
\* how often one thread may leave grent_mutex locked behind it
MaxLockDepth == 1
\* rows of the initgroups_dyn query
MaxIds == 3
\* largest initial size / limit handed to initgroups_dyn
MaxSize == 3

(***************************************************************************)
(* Program constants.                                                      *)
(***************************************************************************)
\* sizeof(char *)
PtrWidth == 8
\* int msize = 20
InitialMsize == 20

Errnos == {"EOK", "ERANGE"}

VARIABLES
    gu,          \* one call of get_users: its arguments, then its result
    grent_data,  \* the static struct of getgrent: pDb, pSt, try_again, entry
    grent_mutex, \* the recursive mutex: owner thread (0: none) and lock count
    stmt,        \* the row source behind grent_data.pSt: the row it stands on
    ret,         \* what the last enumeration call returned to its caller
    crashed,     \* the process was brought down by undefined behaviour
    lk,          \* one point lookup: its arguments, then its result
    ig           \* one call of initgroups_dyn, stepped through its loop

vars == <<gu, grent_data, grent_mutex, stmt, ret, crashed, lk, ig>>

(***************************************************************************)
(* Buffer regions.  A region is a function from byte offsets to cells; a   *)
(* pointer takes PtrWidth cells, the first holding the target offset.      *)
(***************************************************************************)
Uninit == [k |-> "uninit", v |-> 0]
CharCell(c) == [k |-> "char", v |-> c]
NulCell == [k |-> "char", v |-> 0]
PtrCell(off) == [k |-> "ptr", v |-> off]
NullPtrCell == [k |-> "null", v |-> 0]
PadCell == [k |-> "pad", v |-> 0]

FreshRegion(buflen) == [o \in 0..(buflen - 1) |-> Uninit]

\* a store of cells cs (a sequence) at offset at: the bytes that fall outside
\* the region land in memory the region does not own
Store(mem, at, cs) ==
    [o \in DOMAIN mem |->
        IF o >= at /\ o < at + Len(cs) THEN cs[o - at + 1] ELSE mem[o]]

Touched(at, cs) == at..(at + Len(cs) - 1)

\* ptr_area[i] = p
PtrBytes(first) == [j \in 1..PtrWidth |-> IF j = 1 THEN first ELSE PadCell]

\* strcpy(next_member, members[i]): the characters and the terminating NUL
StrBytes(name) ==
    [j \in 1..(Len(name) + 1) |-> IF j <= Len(name) THEN CharCell(name[j]) ELSE NulCell]

SeqsUpTo(S, n) == UNION {[1..k -> S] : k \in 0..n}
\* member names: every length up to MaxNameLen, written in one of two letters
Names == {[j \in 1..n |-> c] : n \in 0..MaxNameLen, c \in 1..2}
MemberLists == SeqsUpTo(Names, MaxMembers)

RECURSIVE SumLen(_)
SumLen(ms) == IF ms = <<>> THEN 0 ELSE Len(Head(ms)) + 1 + SumLen(Tail(ms))

\* the minimum region size of a member list, as the specification states it
MinRegion(ms) == (Len(ms) + 1) * PtrWidth + SumLen(ms)

(***************************************************************************)
(* get_users, lines 405-505.                                               *)
(***************************************************************************)
GuFails == {"none", "query", "prepare", "bind", "step", "midstep"}

\* the rows the membership query delivers before its stepping ends: an error
\* of a later sqlite3_step ends the do-while loop like SQLITE_DONE does
Gathered(members, fail) ==
    IF fail = "midstep" /\ Len(members) >= 1 THEN SubSeq(members, 1, 1) ELSE members

\* the do-while of lines 457-467: msize after mcount names were stored
RECURSIVE GatherMsize(_, _, _)
GatherMsize(msize, mcount, n) ==
    IF mcount = n THEN msize
    ELSE GatherMsize(IF msize = mcount THEN msize * 2 ELSE msize, mcount + 1, n)

\* The temporary collection of get_users: the table members (malloc, line
\* 456) and one strdup'ed name per gathered row (line 464), each with the
\* number of times it was handed to free
NoTmp == [allocated |-> FALSE, table |-> 0, names |-> <<>>]
TmpAlloc(members) == [allocated |-> TRUE, table |-> 0, names |-> [j \in DOMAIN members |-> 0]]

\* free_2Dtable(t, c), lines 53-59: the first c elements are freed, then t
Free2DTableMut(t, c) == [t EXCEPT !.names = [j \in DOMAIN @ |-> IF j <= c THEN @[j] + 1 ELSE @[j]]]
Free2DTable(t, c) ==
    [t EXCEPT !.names = [j \in DOMAIN @ |-> IF j <= c THEN @[j] + 1 ELSE @[j]],
              !.table = @ + 1]

\* if(buflen < l), line 492
NameTooLongMut(buflen, l) == buflen <= l
NameTooLong(buflen, l) == buflen < l

\* ptr_area[i] = next_member, line 498
SlotTargetMut(next_member, l) == next_member + l
SlotTarget(next_member, l) == next_member

\* the for loop of lines 490-501 from index i (0-based), then lines 502-504
RECURSIVE PackLoop(_, _, _, _, _, _, _)
PackLoop(i, members, next_member, buflen, mem, written, errno) ==
    IF i = Len(members)
    THEN [status |-> "SUCCESS", errno |-> errno,
          mem |-> Store(mem, i * PtrWidth, PtrBytes(NullPtrCell)),
          written |-> written \cup Touched(i * PtrWidth, PtrBytes(NullPtrCell)),
          tmp |-> Free2DTable(TmpAlloc(members), Len(members))]
    ELSE LET l == Len(members[i + 1]) + 1 IN
         IF NameTooLong(buflen, l)
         THEN [status |-> "TRYAGAIN", errno |-> "ERANGE", mem |-> mem, written |-> written,
               tmp |-> Free2DTable(TmpAlloc(members), Len(members))]
         ELSE LET str == StrBytes(members[i + 1])
                  slot == PtrBytes(PtrCell(SlotTarget(next_member, l)))
                  m1 == Store(mem, next_member, str)
                  m2 == Store(m1, i * PtrWidth, slot)
                  w2 == written \cup Touched(next_member, str) \cup Touched(i * PtrWidth, slot)
              IN PackLoop(i + 1, members, next_member + l, buflen - l, m2, w2, errno)

\* if(buflen < ptr_area_size), line 482
PtrAreaTooBig(buflen, ptr_area_size) == buflen < ptr_area_size

\* lines 480-504: the bounded pack of the gathered names
Pack(members, buffer, buflen, errno) ==
    LET ptr_area_size == (Len(members) + 1) * PtrWidth IN
    IF PtrAreaTooBig(buflen, ptr_area_size)
    THEN [status |-> "TRYAGAIN", errno |-> "ERANGE", mem |-> buffer, written |-> {},
          tmp |-> Free2DTable(TmpAlloc(members), Len(members))]
    ELSE PackLoop(0, members, ptr_area_size, buflen - ptr_area_size, buffer, {}, errno)

\* if(buflen < sizeof(char*)), line 440
NoRoomForTerminatorMut(buflen) == buflen < 1
NoRoomForTerminator(buflen) == buflen < PtrWidth

\* lines 436-451: the first step delivered no row
NoRow(buffer, buflen, errno, done) ==
    IF ~done
    THEN [status |-> "UNAVAIL", errno |-> errno, mem |-> buffer, written |-> {}]
    ELSE IF NoRoomForTerminator(buflen)
    THEN [status |-> "TRYAGAIN", errno |-> "ERANGE", mem |-> buffer, written |-> {}]
    ELSE [status |-> "SUCCESS", errno |-> errno,
          mem |-> Store(buffer, 0, PtrBytes(NullPtrCell)),
          written |-> Touched(0, PtrBytes(NullPtrCell))]

\* The whole of get_users.  buffer is the part of the caller's region the
\* model observes (a store outside it is recorded in written only), buflen
\* the length the caller declares, fail the store call that fails.  The
\* result records the status, *errnop, the region, the offsets written, and
\* the releases: closes of the caller's connection, the statement prepared
\* and finalized, the temporary collection with the frees of its parts.
GetUsers(members, buffer, buflen, errno, fail) ==
    LET unavail == [status |-> "UNAVAIL", errno |-> errno, mem |-> buffer, written |-> {}]
        none == [closes |-> 0, prepared |-> 0, finals |-> 0,
                 tmp |-> NoTmp, msize |-> InitialMsize,
                 gathered |-> <<>>]
    IN
    IF fail = "query"
    THEN unavail @@ [none EXCEPT !.closes = 1]
    ELSE IF fail = "prepare"
    THEN unavail @@ none
    ELSE IF fail = "bind"
    THEN unavail @@ [none EXCEPT !.prepared = 1, !.finals = 1]
    ELSE IF fail = "step" \/ members = <<>>
    THEN NoRow(buffer, buflen, errno, fail # "step")
            @@ [none EXCEPT !.prepared = 1, !.finals = 1]
    ELSE LET g == Gathered(members, fail) IN
         Pack(g, buffer, buflen, errno)
            @@ [none EXCEPT !.prepared = 1, !.finals = 1,
                            !.msize = GatherMsize(InitialMsize, 0, Len(g)),
                            !.gathered = g]

(***************************************************************************)
(* Reading a packed region back: the string a pointer slot points at.      *)
(***************************************************************************)
RECURSIVE ReadStr(_, _)
ReadStr(mem, off) ==
    IF off \notin DOMAIN mem \/ mem[off].k # "char" THEN <<-1>>
    ELSE IF mem[off].v = 0 THEN <<>>
    ELSE <<mem[off].v>> \o ReadStr(mem, off + 1)

RECURSIVE ReadTable(_, _)
ReadTable(mem, i) ==
    IF i * PtrWidth \notin DOMAIN mem \/ mem[i * PtrWidth].k # "ptr" THEN <<>>
    ELSE <<ReadStr(mem, mem[i * PtrWidth].v)>> \o ReadTable(mem, i + 1)


(***************************************************************************)
(* The specification of get_users as a function of its arguments.          *)
(***************************************************************************)
MaxBuf == (MaxMembers + 1) * PtrWidth + MaxMembers * (MaxNameLen + 1) + 1

\* nothing returned yet.  op: the entry point; status, errno: what the caller
\* got; rec: the row marshalled for the caller (0: none); complete: fill_group
\* reported the record fully marshalled; fromCache: the record came from
\* grent_data.entry (lines 126-133); stepped: sqlite3_step ran on the cursor's
\* statement; fault: a store call failed or behaved undefined during the call;
\* misuse: a handle already released was released or used again, or memory
\* already freed was read; leak: a handle was dropped without being released
NoRet ==
    [op |-> "none", buflen |-> 0, status |-> "SUCCESS", errno |-> "EOK", rec |-> 0,
     complete |-> FALSE, fromCache |-> FALSE, stepped |-> FALSE, fault |-> FALSE,
     misuse |-> FALSE, leak |-> FALSE]

GuIdle == [pc |-> "idle"]
LkIdle == [pc |-> "idle"]
IgIdle == [pc |-> "idle"]
CursorInit ==
    /\ grent_data = [pDb |-> "NULL", pSt |-> "NULL", try_again |-> 0, entry |-> 0]
    /\ grent_mutex = [owner |-> 0, count |-> 0]
    /\ stmt = [pos |-> 0, given |-> 0]
    /\ ret = NoRet
    /\ crashed = FALSE

cursorVars == <<grent_data, grent_mutex, stmt, ret, crashed>>

InitUsers ==
    /\ gu \in [pc : {"call"}, members : MemberLists, buflen : 0..MaxBuf, errno0 : Errnos]
    /\ lk = LkIdle
    /\ ig = IgIdle
    /\ CursorInit

GetUsersCall ==
    /\ gu.pc = "call"
    /\ \E fail \in GuFails :
          gu' = [pc |-> "done", members |-> gu.members, buflen |-> gu.buflen,
                 errno0 |-> gu.errno0, fail |-> fail,
                 res |-> GetUsers(gu.members, FreshRegion(gu.buflen), gu.buflen,
                                  gu.errno0, fail)]
    /\ UNCHANGED <<cursorVars, lk, ig>>

NextUsers == GetUsersCall

SpecUsers == InitUsers /\ [][NextUsers]_vars

(***************************************************************************)
(* The rows of the full-scan query, and the marshaling of one of them.     *)
(***************************************************************************)
\* the threads calling the enumeration entry points
Threads == {1, 2}

\* row i of the groups table: rows differ in name length and member count
GroupRow(i) ==
    [gr_gid |-> i,
     gr_name |-> [j \in 1..(1 + (i % 2)) |-> 1],
     members |-> [j \in 1..((i + 1) % 3) |-> <<j>>]]

\* fill_group: the group name goes into the region first, the member list is
\* packed by get_users into what remains.  The contents of the caller's
\* buffer are not observed here: only the status, *errnop and the closes
FillGroup(entry, buflen, errno, fail) ==
    LET l == Len(entry.gr_name) + 1 IN
    IF buflen < l
    THEN [status |-> "TRYAGAIN", errno |-> "ERANGE", closes |-> 0]
    ELSE GetUsers(entry.members, FreshRegion(0), buflen - l, errno, fail)

\* the smallest buffer row i can be marshalled into
Need(i) == Len(GroupRow(i).gr_name) + 1 + MinRegion(GroupRow(i).members)

\* the buffer lengths callers of getgrent_r try: one too small for every row,
\* one the smallest row just fits in, one every row fits in
SmallestNeed == CHOOSE n \in {Need(i) : i \in 1..NumRows} : \A i \in 1..NumRows : n <= Need(i)
LargestNeed == CHOOSE n \in {Need(i) : i \in 1..NumRows} : \A i \in 1..NumRows : n >= Need(i)
CursorBufLens == {0, SmallestNeed, LargestNeed}

\* the failures of get_users the cursor tells apart: a failed prepare or bind
\* leaves the cursor as a failed first step does
CursorGuFails == {"none", "query", "step", "midstep"}


\* res2nss_status: a row is success and releases nothing; the end of the rows
\* and a failed step finalize the statement and close the connection
Res2Nss(res) ==
    IF res = "row" THEN [status |-> "SUCCESS", release |-> FALSE]
    ELSE IF res = "done" THEN [status |-> "NOTFOUND", release |-> TRUE]
    ELSE [status |-> "UNAVAIL", release |-> TRUE]

(***************************************************************************)
(* Handles.  A connection pointer is NULL, open, failed (the handle of an  *)
(* open that failed, not closed yet) or closed (dangling); a statement     *)
(* pointer is NULL, live or finalized (dangling).                          *)
(***************************************************************************)
\* sqlite3_close(pDb) on the running tally x of a call
CloseDb(x) ==
    IF x.d.pDb \in {"open", "failed"}
    THEN [x EXCEPT !.d.pDb = "closed"]
    ELSE [x EXCEPT !.misuse = TRUE, !.fault = TRUE]

\* sqlite3_finalize(pSt): finalizing NULL is a no-op
FinalizeSt(x) ==
    IF x.d.pSt = "live" THEN [x EXCEPT !.d.pSt = "finalized"]
    ELSE IF x.d.pSt = "NULL" THEN x
    ELSE [x EXCEPT !.misuse = TRUE, !.fault = TRUE]

\* the tally a call starts with
Tally(d, s) ==
    [d |-> d, s |-> s, locks |-> 0, misuse |-> FALSE, leak |-> FALSE,
     fault |-> FALSE, stepped |-> FALSE]

(***************************************************************************)
(* _nss_sqlite_setgrent, lines 64-89.                                      *)
(***************************************************************************)
SFails == {"none", "open", "query", "prepare"}

\* lines 67-85 when grent_data.pDb == NULL.  Every failing return leaves the
\* mutex locked (leaked) and grent_data.pDb as the call left it
SetgrentOpen(x, sfail) ==
    IF sfail = "open"
    THEN [x EXCEPT !.d.pDb = "failed", !.locks = @ + 1, !.fault = TRUE]
    ELSE IF sfail = "query"
    THEN [CloseDb([x EXCEPT !.d.pDb = "open"]) EXCEPT !.locks = @ + 1, !.fault = TRUE]
    ELSE IF sfail = "prepare"
    THEN [CloseDb(FinalizeSt([x EXCEPT !.d.pDb = "open", !.d.pSt = "NULL"]))
             EXCEPT !.locks = @ + 1, !.fault = TRUE]
    ELSE [x EXCEPT !.d.pDb = "open", !.d.pSt = "live", !.s = [pos |-> 0, given |-> 0]]

(***************************************************************************)
(* _nss_sqlite_endgrent, lines 94-104.                                     *)
(***************************************************************************)
\* grent_data.pDb = NULL, line 100
EndgrentResetMut(d) == d
EndgrentReset(d) == [d EXCEPT !.pDb = "NULL"]

\* the pointer to the connection is overwritten: an unreleased handle is lost
DropDb(x, d) ==
    [x EXCEPT !.d = d, !.leak = @ \/ (d.pDb = "NULL" /\ x.d.pDb \in {"open", "failed"})]

EndgrentBody(x) ==
    IF x.d.pDb # "NULL"
    THEN LET y == CloseDb(FinalizeSt(x)) IN DropDb(y, EndgrentReset(y.d))
    ELSE x

(***************************************************************************)
(* _nss_sqlite_getgrent_r, lines 115-156.                                  *)
(***************************************************************************)
\* the strings grent_data.entry points at belong to the row the statement
\* stands on: they are gone once the statement is stepped or finalized
EntryValid(d, s) == d.pDb = "open" /\ d.pSt = "live" /\ s.pos = d.entry

\* the rows a read of grent_data.entry can yield
EntryReads(d, s) == IF EntryValid(d, s) THEN {d.entry} ELSE 1..NumRows

\* the failures get_users can meet on connection pDb: a failed handle answers
\* no query, a closed one is undefined behaviour
GuFailsFor(pDb) == IF pDb = "failed" THEN {"query"} ELSE CursorGuFails

\* if(res != NSS_STATUS_TRYAGAIN || (*errnop) != ERANGE), line 129
RetryDone(res, errno) == res # "TRYAGAIN" \/ errno # "ERANGE"

\* grent_data.try_again = 0, line 130
ClearTryAgainMut(d) == d
ClearTryAgain(d) == [d EXCEPT !.try_again = 0]

\* what sqlite3_step(grent_data.pSt) can answer: "row", "done" or "error" of a
\* live statement; an error of a NULL statement; anything of a dangling one
StepAnswers(d, s) ==
    IF d.pSt = "NULL" THEN {[res |-> "error", row |-> 0, ub |-> FALSE]}
    ELSE IF d.pSt = "live" /\ d.pDb = "open"
    THEN {[res |-> "error", row |-> 0, ub |-> FALSE],
          IF s.pos < NumRows THEN [res |-> "row", row |-> s.pos + 1, ub |-> FALSE]
                             ELSE [res |-> "done", row |-> 0, ub |-> FALSE]}
    ELSE {[res |-> "error", row |-> 0, ub |-> TRUE], [res |-> "done", row |-> 0, ub |-> TRUE]}
         \cup {[res |-> "row", row |-> k, ub |-> TRUE] : k \in 1..NumRows}

\* the running tally after fill_group returned r: get_users may have closed
\* pDb
FillOn(x, r, fail) ==
    LET y == IF r.closes > 0 THEN CloseDb(x) ELSE x
    IN [y EXCEPT !.fault = @ \/ fail # "none" \/ x.d.pDb # "open"]

\* return NSS_STATUS_SUCCESS, line 155
FetchedStatus(res) == "SUCCESS"

\* The call returns: the cursor, the mutex and the caller's view are updated.
\* Undefined behaviour during the call may also bring the process down.
Return(t, x, op, buflen, status, errno, rec, complete, fromCache) ==
    /\ grent_mutex.count + x.locks <= MaxLockDepth
    /\ grent_data' = x.d
    /\ stmt' = IF op = "getgrent" /\ status = "SUCCESS" /\ rec # 0
               THEN [x.s EXCEPT !.given = rec] ELSE x.s
    /\ grent_mutex' = IF grent_mutex.count + x.locks > 0
                      THEN [owner |-> t, count |-> grent_mutex.count + x.locks]
                      ELSE grent_mutex
    /\ ret' = [op |-> op, buflen |-> buflen, status |-> status, errno |-> errno,
               rec |-> rec, complete |-> complete, fromCache |-> fromCache,
               stepped |-> x.stepped, fault |-> x.fault, misuse |-> x.misuse,
               leak |-> x.leak]
    /\ crashed' \in (IF x.misuse THEN {FALSE, TRUE} ELSE {FALSE})
    /\ UNCHANGED <<gu, lk, ig>>

MayEnter(t) == ~crashed /\ grent_mutex.owner \in {0, t}

\* lines 143-155: the fetched row is cached and marshalled
GetgrentFetched(t, x, row, buflen, errno) ==
    \E fail \in GuFailsFor(x.d.pDb) :
      \E r \in {FillGroup(GroupRow(row), buflen, "EOK", fail)} :
        LET x1 == FillOn([x EXCEPT !.d.entry = row], r, fail)
        IN IF r.status = "TRYAGAIN" /\ r.errno = "ERANGE"
           THEN Return(t, [x1 EXCEPT !.d.try_again = 1], "getgrent", buflen,
                       "TRYAGAIN", r.errno, row, FALSE, FALSE)
           ELSE Return(t, x1, "getgrent", buflen, FetchedStatus(r.status),
                       r.errno, row, r.status = "SUCCESS" /\ fail = "none", FALSE)

\* lines 136-141: the row cursor is advanced
GetgrentStep(t, x, buflen, errno) ==
    \E a \in StepAnswers(x.d, x.s) :
        LET r == Res2Nss(a.res)
            x1 == [x EXCEPT !.stepped = TRUE, !.fault = @ \/ a.ub \/ a.res = "error",
                            !.misuse = @ \/ a.ub,
                            !.s.pos = IF a.ub THEN @ ELSE IF a.res = "row" THEN a.row ELSE @]
        IN IF r.status # "SUCCESS"
           THEN LET y == CloseDb(FinalizeSt(x1)) IN
                Return(t, DropDb(y, [y.d EXCEPT !.pDb = "NULL"]), "getgrent", buflen,
                       r.status, errno, 0, FALSE, FALSE)
           ELSE GetgrentFetched(t, x1, a.row, buflen, errno)

\* lines 126-134: the cached record is tried again
GetgrentRetry(t, x, buflen, errno) ==
    IF x.d.try_again = 1
    THEN \E row \in EntryReads(x.d, x.s), fail \in GuFailsFor(x.d.pDb) :
          \E r \in {FillGroup(GroupRow(row), buflen, "EOK", fail)} :
            LET x0 == [x EXCEPT !.misuse = @ \/ ~EntryValid(x.d, x.s),
                                !.fault = @ \/ ~EntryValid(x.d, x.s)]
                x1 == FillOn(x0, r, fail)
            IN IF RetryDone(r.status, r.errno)
               THEN Return(t, [x1 EXCEPT !.d = ClearTryAgain(x1.d)], "getgrent",
                           buflen, r.status, r.errno, row,
                           r.status = "SUCCESS" /\ fail = "none", TRUE)
               ELSE GetgrentStep(t, x1, buflen, r.errno)
    ELSE GetgrentStep(t, x, buflen, errno)

Getgrent(t) ==
    /\ MayEnter(t)
    /\ \E buflen \in CursorBufLens :
          IF grent_data.pDb = "NULL"
          THEN \E sfail \in SFails :
                  GetgrentRetry(t, SetgrentOpen(Tally(grent_data, stmt), sfail),
                                buflen, "EOK")
          ELSE GetgrentRetry(t, Tally(grent_data, stmt), buflen, "EOK")

\* setgrent called by a thread.  With the cursor open the function skips to
\* free(sql) of a pointer never set: undefined behaviour
Setgrent(t) ==
    /\ MayEnter(t)
    /\ IF grent_data.pDb = "NULL"
       THEN \E sfail \in SFails :
               LET x == SetgrentOpen(Tally(grent_data, stmt), sfail) IN
               Return(t, x, "setgrent", 0,
                      IF sfail = "none" THEN "SUCCESS" ELSE "UNAVAIL", "EOK",
                      0, FALSE, FALSE)
       ELSE LET x == Tally(grent_data, stmt) IN
            Return(t, [x EXCEPT !.misuse = TRUE, !.fault = TRUE], "setgrent", 0,
                   "SUCCESS", "EOK", 0, FALSE, FALSE)

Endgrent(t) ==
    /\ MayEnter(t)
    /\ Return(t, EndgrentBody(Tally(grent_data, stmt)), "endgrent", 0,
              "SUCCESS", "EOK", 0, FALSE, FALSE)

Init ==
    /\ CursorInit
    /\ gu = GuIdle
    /\ lk = LkIdle
    /\ ig = IgIdle

Next ==
    \E t \in Threads :
        \/ Setgrent(t)
        \/ Getgrent(t)
        \/ Endgrent(t)

Spec == Init /\ [][Next]_vars

(***************************************************************************)
(* Properties of the enumeration cursor.                                   *)
(***************************************************************************)
\* the cursor owns a live connection and a live statement
CursorOpen == grent_data.pDb = "open" /\ grent_data.pSt = "live"

\* C1, first half: after getgrent_r returned TRYAGAIN/ERANGE on record R, the
\* next enumeration call, if it is getgrent_r with a buffer R fits in and no
\* store failure, returns R with SUCCESS from the cache, the row cursor unmoved.
C1_RetryReturnsSame ==
    (/\ ret.op = "getgrent" /\ ret.status = "TRYAGAIN" /\ ret.errno = "ERANGE"
     /\ CursorOpen
     /\ ret'.op = "getgrent" /\ ret'.buflen >= Need(ret.rec) /\ ~ret'.fault)
    => (/\ ret'.status = "SUCCESS" /\ ret'.rec = ret.rec /\ ret'.complete
        /\ ret'.fromCache /\ ~ret'.stepped /\ stmt'.pos = stmt.pos)

\* C1, second half: the getgrent_r call after a successful retry of R advances
\* the row cursor to the row following R (or meets the end of the rows).
C1_ThenNextRow ==
    (/\ ret.op = "getgrent" /\ ret.status = "SUCCESS" /\ ret.fromCache /\ ~ret.fault
     /\ CursorOpen
     /\ ret'.op = "getgrent" /\ ~ret'.fault)
    => (/\ ret'.stepped
        /\ IF ret.rec < NumRows
           THEN ret'.rec = ret.rec + 1 /\ ret'.status \in {"SUCCESS", "TRYAGAIN"}
           ELSE ret'.rec = 0 /\ ret'.status = "NOTFOUND")

\* C1: retry continuation: a getgrent_r call that fails with TRYAGAIN/ERANGE on
\* record R is followed, when the next call brings a sufficient buffer, by R
\* itself and then by the row after R.
C1_RetryContinuation == [][C1_RetryReturnsSame /\ C1_ThenNextRow]_vars

\* C1 witness: a record was delivered from the cache after a failed attempt,
\* completely marshalled, the row cursor still standing on it.
C1_Witness ==
    /\ ret.op = "getgrent" /\ ret.status = "SUCCESS" /\ ret.fromCache
    /\ ret.complete /\ ~ret.fault /\ CursorOpen
    /\ grent_data.try_again = 0 /\ stmt.pos = ret.rec /\ ret.rec = 1

\* C2 (as claimed): a getgrent_r call in pending-retry state with a buffer the
\* cached record does not fit in returns TRYAGAIN/ERANGE, keeps the cached
\* record and the pending-retry flag, and does not advance the row cursor.
C2_TooSmallRetryKeepsRow ==
    [][(/\ grent_data.try_again = 1 /\ CursorOpen /\ EntryValid(grent_data, stmt)
        /\ ret'.op = "getgrent" /\ ret'.buflen < Need(grent_data.entry)
        /\ ~ret'.fault)
       => (/\ ret'.status = "TRYAGAIN" /\ ret'.errno = "ERANGE"
           /\ grent_data' = grent_data /\ stmt'.pos = stmt.pos
           /\ ~ret'.stepped)]_vars

\* C3 (as claimed): every getgrent_r call that returns SUCCESS, whichever
\* thread makes it, delivers the row right after the row last delivered with
\* SUCCESS in this scan, and the end of the rows is reported only once every
\* row was delivered: each row exactly once, in row order.
C3_EachRowOnceInOrder ==
    [][(ret'.op = "getgrent" /\ ~ret'.fault)
       => LET before == IF grent_data.pDb = "NULL" THEN 0 ELSE stmt.given IN
          /\ ret'.status = "SUCCESS" => ret'.rec = before + 1
          /\ ret'.status = "NOTFOUND" => before = NumRows]_vars

\* C5 (as claimed): getgrent_r returns SUCCESS only when fill_group reported
\* the fetched record completely marshalled.
C5_SuccessOnlyIfMarshalled ==
    (ret.op = "getgrent" /\ ret.status = "SUCCESS") => ret.complete

\* C10: endgrent returns SUCCESS; from an open cursor (pending retry or not) it
\* finalizes the statement and closes the connection once each and leaves
\* pDb NULL; with pDb NULL already it releases nothing and changes nothing.
C10_CloseIdempotent ==
    [][ret'.op = "endgrent"
       => (/\ ret'.status = "SUCCESS"
           /\ CursorOpen => (/\ grent_data'.pDb = "NULL"
                             /\ grent_data'.pSt = "finalized"
                             /\ ~ret'.misuse /\ ~ret'.leak)
           /\ grent_data.pDb = "NULL" => (/\ grent_data' = grent_data
                                          /\ stmt' = stmt
                                          /\ ~ret'.misuse /\ ~ret'.leak))]_vars

\* C10 witness: endgrent closed a cursor that was in pending-retry state.
C10_Witness ==
    /\ ret.op = "endgrent" /\ ret.status = "SUCCESS"
    /\ grent_data.pDb = "NULL" /\ grent_data.pSt = "finalized"
    /\ grent_data.try_again = 1 /\ ~ret.misuse /\ ~ret.leak

\* C11 (as claimed): setgrent with the cursor open returns SUCCESS, opens and
\* prepares nothing, touches no handle and no memory it does not own, and
\* leaves the row position, the pending-retry flag and the cached record as
\* they were; with the cursor closed and no store failure it leaves the cursor
\* open, before the first row, with no retry pending.
C11_OpenIdempotent ==
    [][ret'.op = "setgrent"
       => (/\ CursorOpen => (/\ ret'.status = "SUCCESS"
                             /\ grent_data' = grent_data /\ stmt' = stmt
                             /\ ~ret'.misuse /\ ~crashed')
           /\ (grent_data.pDb = "NULL" /\ ~ret'.fault)
                 => (/\ ret'.status = "SUCCESS"
                     /\ grent_data'.pDb = "open" /\ grent_data'.pSt = "live"
                     /\ stmt'.pos = 0 /\ grent_data'.try_again = 0))]_vars

\* C12 (as claimed): a getgrent_r call that steps a live statement standing on
\* the last row returns NOTFOUND, the statement finalized and the connection
\* closed once each, pDb NULL; and the getgrent_r call after an end-of-set
\* return, when it leaves the cursor open, has read the first row of a fresh
\* scan and nothing cached by the finished one.
C12_EndOfSet ==
    [][ret'.op = "getgrent"
       => (/\ (CursorOpen /\ stmt.pos = NumRows /\ ret'.stepped /\ ~ret'.fault)
                 => (/\ ret'.status = "NOTFOUND"
                     /\ grent_data'.pDb = "NULL" /\ grent_data'.pSt = "finalized"
                     /\ ~ret'.misuse /\ ~ret'.leak)
           /\ (/\ ret.op = "getgrent" /\ ret.status = "NOTFOUND"
               /\ grent_data.pDb = "NULL"
               /\ grent_data'.pDb = "open" /\ grent_data'.pSt = "live")
                 => (/\ ~ret'.fromCache /\ ret'.stepped
                     /\ ret'.rec = 1 /\ stmt'.pos = 1))]_vars

\* C13 (as claimed): whenever no enumeration call is running, no thread holds
\* grent_mutex: every return path unlocked it as often as it locked it.
C13_LockReleased == grent_mutex.count = 0 /\ grent_mutex.owner = 0

\* C14 (as claimed): a setgrent that returns UNAVAIL has released what it
\* acquired and left pDb NULL, and the enumeration call after it uses no
\* handle that was released or never opened.
C14_FailedOpenLeavesClosed ==
    [][(/\ ret'.op = "setgrent" /\ ret'.status = "UNAVAIL"
           => (grent_data'.pDb = "NULL" /\ ~ret'.leak /\ ~ret'.misuse))
       /\ ((/\ ret.op = "setgrent" /\ ret.status = "UNAVAIL"
            /\ ret'.op \in {"setgrent", "getgrent"})
           => ~ret'.misuse)]_vars

\* C15 (as claimed): in every state, a pending retry implies an open cursor.
C15_PendingRetryImpliesOpen == grent_data.try_again = 1 => CursorOpen

(***************************************************************************)
(* _nss_sqlite_getgrnam_r and _nss_sqlite_getgrgid_r, lines 168-288.  The  *)
(* two differ in the bind call only.  hit is the row the key matches, 0    *)
(* when no row does.  The result counts the handles the lookup acquired    *)
(* (opened, prepared) and the release calls made on them (closes, finals). *)
(***************************************************************************)
LkFails == {"none", "open", "query", "prepare", "bind", "step"}

\* lines 207-211 and 273-277: what the lookup does with a step that is no row
LookupNoRow(status, release) ==
    [status |-> status, opened |-> 1, prepared |-> 1,
     closes |-> IF release THEN 1 ELSE 0, finals |-> IF release THEN 1 ELSE 0]

\* sqlite3_close(pDb) after fill_group, lines 218 and 284
CloseAfterFill(closes) == closes + 1

\* lines 213-220 and 279-286: the row is mapped, marshalled, and the handles
\* are released
LookupRow(hit, buflen, errno, gufail) ==
    LET f == FillGroup(GroupRow(hit), buflen, errno, gufail) IN
    [status |-> f.status, errno |-> f.errno, opened |-> 1, prepared |-> 1,
     closes |-> CloseAfterFill(f.closes), finals |-> 1]

LookupBody(hit, buflen, errno, fail, gufail) ==
    IF fail = "open"
    THEN [status |-> "UNAVAIL", errno |-> errno, opened |-> 1, prepared |-> 0,
          closes |-> 1, finals |-> 0]
    ELSE IF fail = "query"
    THEN [status |-> "UNAVAIL", errno |-> errno, opened |-> 1, prepared |-> 0,
          closes |-> 1, finals |-> 0]
    ELSE IF fail = "prepare"
    THEN [status |-> "UNAVAIL", errno |-> errno, opened |-> 1, prepared |-> 0,
          closes |-> 1, finals |-> 0]
    ELSE IF fail = "bind"
    THEN [status |-> "UNAVAIL", errno |-> errno, opened |-> 1, prepared |-> 1,
          closes |-> 1, finals |-> 1]
    ELSE LET res == IF fail = "step" THEN "error" ELSE IF hit = 0 THEN "done" ELSE "row"
             n == Res2Nss(res)
         IN IF n.status # "SUCCESS"
            THEN LookupNoRow(n.status, n.release) @@ [errno |-> errno]
            ELSE LookupRow(hit, buflen, errno, gufail)

LookupCall(op) ==
    \E hit \in 0..NumRows, buflen \in CursorBufLens, errno \in Errnos,
       fail \in LkFails, gufail \in GuFails :
        /\ (fail # "none" \/ hit = 0) => gufail = "none"
        /\ lk' = [pc |-> "done", op |-> op, hit |-> hit, buflen |-> buflen,
                  fail |-> fail, gufail |-> gufail,
                  res |-> LookupBody(hit, buflen, errno, fail, gufail)]
        /\ UNCHANGED <<gu, cursorVars, ig>>

Getgrnam == LookupCall("getgrnam")

Getgrgid == LookupCall("getgrgid")

InitLookup ==
    /\ CursorInit
    /\ gu = GuIdle
    /\ lk = LkIdle
    /\ ig = IgIdle

NextLookup == Getgrnam \/ Getgrgid

SpecLookup == InitLookup /\ [][NextLookup]_vars

\* C4 (as claimed): on every exit path of a lookup, each handle the lookup
\* acquired was released exactly once: as many closes as connections opened,
\* as many finalizes as statements prepared.
C4_LookupReleasesOnce ==
    lk.pc = "done" => (lk.res.closes = lk.res.opened /\ lk.res.finals = lk.res.prepared)

(***************************************************************************)
(* _nss_sqlite_initgroups_dyn, lines 306-392, stepped through its loop.    *)
(* The array *groupsp is a sequence as long as its allocation; index i of  *)
(* the C array is position i + 1 of the sequence.                          *)
(***************************************************************************)
IgFails == {"none", "open", "query", "prepare", "bind_user", "bind_gid", "step"}

\* the ids other backends stored below *start before the call
PriorId(i) == 100 + i

\* the gid of row j of the initgroups_dyn query
RowId(j) == j

\* realloc(*groupsp, n): the common prefix is kept, new cells hold anything
Realloc(groups, n) == [j \in 1..n |-> IF j <= Len(groups) THEN groups[j] ELSE 0]

\* *size = (limit < (*size * 2)) ? limit : (*size * 2), line 365
GrowLimited(size, limit) == IF limit < size * 2 THEN limit ELSE size * 2

\* if(*size < limit), line 364
BelowLimit(size, limit) == size < limit

\* the arguments of a call: *start <= *size, *size <= limit when a limit is set
IgInputs ==
    {[pc |-> "call", start |-> st, size |-> sz, limit |-> lim, nrows |-> n,
      groups |-> [j \in 1..sz |-> IF j <= st THEN PriorId(j - 1) ELSE 0],
      start0 |-> st, size0 |-> sz, row |-> 0, status |-> "SUCCESS", errno |-> e,
      oob |-> FALSE, fault |-> FALSE, opened |-> 0, prepared |-> 0, closes |-> 0,
      finals |-> 0] :
        st \in 0..MaxSize, sz \in 0..MaxSize, lim \in 0..(MaxSize + 1),
        n \in 0..MaxIds, e \in Errnos}

InitIg ==
    /\ CursorInit
    /\ gu = GuIdle
    /\ lk = LkIdle
    /\ ig \in {i \in IgInputs : i.start <= i.size /\ (i.limit > 0 => i.size <= i.limit)}

\* lines 316-356: open, load the query, prepare, bind twice, step once
IgEnter ==
    /\ ig.pc = "call"
    /\ \E fail \in IgFails :
        LET res == IF fail = "step" THEN "error" ELSE IF ig.nrows = 0 THEN "done" ELSE "row"
            n == Res2Nss(res)
            rel == IF n.release THEN 1 ELSE 0
        IN ig' =
            IF fail \in {"open", "query", "prepare"}
            THEN [ig EXCEPT !.pc = "done", !.status = "UNAVAIL", !.fault = TRUE,
                            !.opened = 1, !.closes = 1]
            ELSE IF fail \in {"bind_user", "bind_gid"}
            THEN [ig EXCEPT !.pc = "done", !.status = "UNAVAIL", !.fault = TRUE,
                            !.opened = 1, !.prepared = 1, !.closes = 1, !.finals = 1]
            ELSE IF n.status # "SUCCESS"
            THEN [ig EXCEPT !.pc = "done", !.status = n.status, !.fault = (fail # "none"),
                            !.opened = 1, !.prepared = 1, !.closes = rel, !.finals = rel]
            ELSE [ig EXCEPT !.pc = "loop", !.row = 1, !.opened = 1, !.prepared = 1]
    /\ UNCHANGED <<gu, cursorVars, lk>>

\* lines 367-373: the limit is reached
IgLimitReached ==
    [ig EXCEPT !.pc = "done", !.status = "TRYAGAIN", !.errno = "ERANGE",
               !.closes = @ + 1, !.finals = @ + 1]

\* lines 362-379: the array is grown when *start == *size
IgGrown ==
    IF ig.start # ig.size THEN ig
    ELSE LET size == IF ig.limit > 0 THEN GrowLimited(ig.size, ig.limit) ELSE ig.size * 2
         IN [ig EXCEPT !.size = size, !.groups = Realloc(ig.groups, size)]

\* lines 380-383: the gid is stored and the statement stepped; a store past
\* the allocation is undefined behaviour, and an error of the step ends the
\* loop like the end of the rows does
IgStore(g, stepError) ==
    LET inside == g.start < Len(g.groups)
        g1 == [g EXCEPT !.groups = IF inside THEN [@ EXCEPT ![g.start + 1] = RowId(g.row)]
                                            ELSE @,
                        !.oob = @ \/ ~inside,
                        !.start = @ + 1,
                        !.fault = @ \/ stepError]
    IN IF g.row < g.nrows /\ ~stepError
       THEN [g1 EXCEPT !.row = @ + 1]
       ELSE \* lines 384-391
            [g1 EXCEPT !.pc = "done", !.groups = Realloc(g1.groups, g1.start),
                       !.size = g1.start, !.status = "SUCCESS",
                       !.closes = @ + 1, !.finals = @ + 1]

\* one pass of the do-while body, lines 358-383, and what follows its exit
IgIterate ==
    /\ ig.pc = "loop"
    /\ IF ig.start = ig.size /\ ig.limit > 0 /\ ~BelowLimit(ig.size, ig.limit)
       THEN ig' = IgLimitReached
       ELSE \E stepError \in BOOLEAN :
               LET g == IgStore(IgGrown, stepError) IN
               \/ ig' = g
               \/ g.oob /\ ig' = [g EXCEPT !.pc = "crashed"]
    /\ UNCHANGED <<gu, cursorVars, lk>>

NextIg == IgEnter \/ IgIterate

SpecIg == InitIg /\ [][NextIg]_vars

\* the array holds, below *start, the prior ids and then the query's ids
IgPrefixKept ==
    /\ Len(ig.groups) >= ig.start
    /\ \A i \in 0..(ig.start - 1) :
          ig.groups[i + 1] = IF i < ig.start0 THEN PriorId(i) ELSE RowId(i - ig.start0 + 1)

\* C6 (as claimed): with a limit C > 0 and more ids than fit under C, the call
\* returns TRYAGAIN/ERANGE exactly when *start == *size == C: it never stores
\* past C, it does not give up before C, and on that return every id collected
\* so far is in the array at its index.
C6_LimitSignalled ==
    (ig.pc \in {"loop", "done"} /\ ig.limit > 0 /\ ~ig.fault)
    => (/\ ig.start <= ig.limit
        /\ (ig.pc = "done" /\ ig.start0 + ig.nrows > ig.limit)
              => (/\ ig.status = "TRYAGAIN" /\ ig.errno = "ERANGE"
                  /\ ig.start = ig.limit /\ ig.size = ig.limit
                  /\ IgPrefixKept)
        /\ (ig.pc = "done" /\ ig.status = "TRYAGAIN")
              => (ig.start0 + ig.nrows > ig.limit /\ ig.start = ig.limit))

\* C7 (as claimed): after every appended id and at return, *start <= *size,
\* *size <= limit when a limit is set, and no id was stored outside the
\* allocation, for every call that starts with *start <= *size <= limit,
\* *size == 0 included.
C7_LengthWithinCapacity ==
    ig.pc \in {"loop", "done", "crashed"}
    => (/\ ig.start <= ig.size
        /\ ig.limit > 0 => ig.size <= ig.limit
        /\ ~ig.oob)

\* C17 (as claimed): while the rows are appended every id written so far sits
\* at its index above the prior ids; and when the rows are exhausted without
\* the limit being hit, zero rows included, *size == *start on return and the
\* array holds the prior ids followed by all the query's ids in row order.
C17_ShrinkToFit ==
    (ig.pc \in {"loop", "done"} /\ ~ig.fault)
    => (/\ IgPrefixKept
        /\ (ig.pc = "done" /\ ig.status # "TRYAGAIN")
              => (ig.size = ig.start /\ ig.start = ig.start0 + ig.nrows))

(***************************************************************************)
(* Properties of get_users as a function.                                  *)
(***************************************************************************)
\* C8: without a store failure, get_users succeeds in a region of exactly the
\* minimum size (N+1)*PtrWidth + sum(len+1), fails with TRYAGAIN/ERANGE in a
\* region one byte smaller, and with no member fails with TRYAGAIN/ERANGE in
\* any region smaller than one pointer slot.
C8_MinimalityBoundary ==
    (gu.pc = "done" /\ gu.fail = "none")
    => (/\ gu.buflen = MinRegion(gu.members) => gu.res.status = "SUCCESS"
        /\ gu.buflen = MinRegion(gu.members) - 1
              => (gu.res.status = "TRYAGAIN" /\ gu.res.errno = "ERANGE")
        /\ (gu.members = <<>> /\ gu.buflen < PtrWidth)
              => (gu.res.status = "TRYAGAIN" /\ gu.res.errno = "ERANGE"))

\* C8 witness: a two-member list met a region one byte short and was refused.
C8_Witness ==
    /\ gu.pc = "done" /\ gu.fail = "none" /\ Len(gu.members) = MaxMembers
    /\ gu.buflen = MinRegion(gu.members) - 1
    /\ gu.res.status = "TRYAGAIN" /\ gu.res.errno = "ERANGE"

\* the offset the string of slot i (0-based) starts at in a contiguous layout
StringOffset(ms, i) == (Len(ms) + 1) * PtrWidth + SumLen(SubSeq(ms, 1, i))

\* C9: when get_users succeeds, slot i of the pointer table points into the
\* string table at a NUL-terminated copy of member i, the strings lie one
\* after the other in row order, slot N is the NULL terminator, and reading
\* the table back yields the gathered list.
C9_RoundTrip ==
    (gu.pc = "done" /\ gu.fail = "none" /\ gu.res.status = "SUCCESS")
    => LET n == Len(gu.members) mem == gu.res.mem IN
       /\ n * PtrWidth \in DOMAIN mem /\ mem[n * PtrWidth] = NullPtrCell
       /\ \A i \in 0..(n - 1) :
             /\ mem[i * PtrWidth] = PtrCell(StringOffset(gu.members, i))
             /\ mem[i * PtrWidth].v >= (n + 1) * PtrWidth
             /\ mem[i * PtrWidth].v + Len(gu.members[i + 1]) < gu.buflen
       /\ ReadTable(mem, 0) = gu.members

\* C16 (as claimed, in its weakest reading): when a sqlite3_step of the gather
\* loop fails after at least one row was consumed, get_users does not return
\* SUCCESS with the names gathered so far.
C16_StepErrorNotSuccess ==
    (gu.pc = "done" /\ gu.fail = "midstep" /\ gu.members # <<>>)
    => gu.res.status # "SUCCESS"

\* C18: every byte get_users writes, pointer slots and string copies, lies in
\* the caller's region [0, buflen), whatever the member list, the region
\* length, the store failure and the status returned.
C18_WritesInsideRegion ==
    gu.pc = "done" => gu.res.written \subseteq 0..(gu.buflen - 1)

\* C18 witness: a packing that ran out of room for a name after it had
\* written an earlier one, in a region that is not a multiple of a slot.
C18_Witness ==
    /\ gu.pc = "done" /\ gu.fail = "none"
    /\ gu.res.status = "TRYAGAIN" /\ gu.res.written # {}
    /\ gu.buflen = MinRegion(gu.members) - 1
    /\ gu.res.written \subseteq 0..(gu.buflen - 1)

\* C19 (as claimed): on every exit path get_users has finalized the statement
\* it prepared exactly once and has not closed the caller's connection.
C19_ReleasesOnlyOwn ==
    gu.pc = "done" => (gu.res.closes = 0 /\ gu.res.finals = gu.res.prepared)

\* C20: on every exit path reached after the temporary collection was
\* allocated, the table and every name in it were freed exactly once; on the
\* paths before the allocation nothing was freed.
C20_TmpReleasedOnce ==
    gu.pc = "done"
    => LET t == gu.res.tmp IN
       /\ t.allocated <=> (gu.fail \in {"none", "midstep"} /\ gu.members # <<>>)
       /\ t.table = (IF t.allocated THEN 1 ELSE 0)
       /\ t.allocated => Len(t.names) = Len(gu.res.gathered)
       /\ \A j \in DOMAIN t.names : t.names[j] = 1

\* C20 witness: the collection of a two-name list was released on the path
\* where the second name does not fit (line 493).
C20_Witness ==
    /\ gu.pc = "done" /\ gu.fail = "none" /\ Len(gu.members) = 2
    /\ gu.buflen = MinRegion(gu.members) - 1 /\ gu.res.status = "TRYAGAIN"
    /\ gu.res.tmp.allocated /\ gu.res.tmp.table = 1
    /\ \A j \in 1..2 : gu.res.tmp.names[j] = 1

\* C9 witness: a list of two different names was packed and read back.
C9_Witness ==
    /\ gu.pc = "done" /\ gu.fail = "none" /\ gu.res.status = "SUCCESS"
    /\ Len(gu.members) = 2 /\ gu.members[1] # gu.members[2]
    /\ Len(gu.members[1]) > 0
    /\ ReadTable(gu.res.mem, 0) = gu.members

====
